---- MODULE Spec2Model ----
(***************************************************************************)
(* A model of src/renderers.rs: the Renderer render pass of the pixels     *)
(* crate.  Renderer::factory builds the GPU pipeline state on a wgpu       *)
(* device, update_bindings does nothing, render_pass records one render    *)
(* pass on a command encoder, debug formats the Renderer.                  *)
(*                                                                         *)
(* The wgpu device is modelled as the list of the resources created on it  *)
(* (a handle is an index into that list), the command encoder as the list  *)
(* of the render passes recorded on it, and a texture view as the pixels   *)
(* it shows.                                                               *)
(***************************************************************************)
EXTENDS Integers, Sequences, FiniteSets, TLC

VARIABLES
    vert_spv,    \* include_bytes!("../shaders/vert.spv"): a sequence of bytes
    frag_spv,    \* include_bytes!("../shaders/frag.spv"): a sequence of bytes
    vert,        \* factory's local Vec<u32> vert, as factory left it
    frag,        \* factory's local Vec<u32> frag, as factory left it
    phase,       \* "init" before factory, "ready" after it returned, "panicked"
    panic,       \* "none", or who raised the panic: "byteorder" or "wgpu"
    resources,   \* the resources created on the device, in creation order
    renderer,    \* the Renderer's fields, NoRenderer before factory returned
    encoder,     \* the render passes recorded on the current command encoder
    texels,      \* what each texture view holds: view -> pixel -> colour
    given_view,  \* the texture view factory was called with, "none" before
    updated,     \* the texture views update_bindings has been called with
    lastCall     \* the last call: its name, its arguments, what it returned

vars == << vert_spv, frag_spv, vert, frag, phase, panic, resources, renderer,
           encoder, texels, given_view, updated, lastCall >>

(***************************************************************************)
(* Bounds.                                                                 *)
(***************************************************************************)
\* The longest byte array the conversion is tried on.
MaxBytes == 8
\* The most render passes recorded on one encoder before it is submitted.
MaxPasses == 2
\* The pixels of a texture view.
NumPixels == 2

\* Byte values the conversion is tried on.  The top byte stays below 128 so
\* that a 32-bit word fits the model checker's integers.
ByteVals == {0, 1, 127}

RECURSIVE SeqsUpTo(_, _)
SeqsUpTo(S, n) ==
    IF n = 0 THEN { <<>> }
    ELSE LET shorter == SeqsUpTo(S, n - 1)
         IN  shorter \cup { Append(s, x) : s \in { t \in shorter : Len(t) = n - 1 }, x \in S }

ByteArrays == SeqsUpTo(ByteVals, MaxBytes)

\* Embedded shaders of the main specification, as << vert.spv, frag.spv >>:
\* SPIR-V modules, which are streams of 32-bit words (the magic number
\* 0x07230203, then the version 1.0).
EmbeddedShaders ==
    { << << 3, 2, 35, 7 >>, << 3, 2, 35, 7, 0, 0, 1, 0 >> >>,
      << << 3, 2, 35, 7, 0, 0, 1, 0 >>, << 3, 2, 35, 7 >> >> }

Devices == { "device" }
TextureViews == { "tex1", "tex2" }
RenderTargets == { "frameA", "frameB" }
Pixels == 1 .. NumPixels
\* The pixels the two triangles may cover: the first k, for every k.
Coverages == { 1 .. k : k \in 0 .. NumPixels }
Channels == { "r", "g", "b", "a" }

NoRenderer == [ device |-> "none", bind_group |-> 0, render_pipeline |-> 0 ]

(***************************************************************************)
(* factory, lines 23-37: the embedded SPIR-V bytes become 32-bit words.    *)
(***************************************************************************)

\* std::mem::size_of::<u32>()
SizeOfU32 == 4

\* vert_spv.len() / std::mem::size_of::<u32>(): the length resize_with gives
\* the vector.
WordCountHalved(spv) == Len(spv) \div 2
WordCount(spv) == Len(spv) \div SizeOfU32

\* vert.resize_with(n, Default::default): n zero words.
ResizeWith(n) == [ i \in 1 .. n |-> 0 ]

\* One little-endian u32 from the four bytes of chunk i (counted from 0).
ReadU32BigEndian(src, i) ==
    ((src[4 * i + 1] * 256 + src[4 * i + 2]) * 256 + src[4 * i + 3]) * 256 + src[4 * i + 4]
ReadU32(src, i) ==
    ((src[4 * i + 4] * 256 + src[4 * i + 3]) * 256 + src[4 * i + 2]) * 256 + src[4 * i + 1]

\* LittleEndian::read_u32_into(src, dst) asserts src.len() == 4 * dst.len()
\* and panics otherwise, before it writes anything.
ReadPanics(src, dst) == Len(src) # SizeOfU32 * Len(dst)

ReadU32Into(src, dst) ==
    IF ReadPanics(src, dst) THEN dst
    ELSE [ i \in 1 .. Len(dst) |-> ReadU32(src, i - 1) ]

(***************************************************************************)
(* factory, lines 39-121: the descriptors handed to the device.            *)
(***************************************************************************)

\* wgpu::SamplerDescriptor of lines 43-53.
SamplerDescriptorLinear ==
    [ address_mode_u |-> "ClampToEdge", address_mode_v |-> "ClampToEdge",
      address_mode_w |-> "ClampToEdge", mag_filter |-> "Linear",
      min_filter |-> "Linear", mipmap_filter |-> "Nearest",
      lod_min_clamp |-> 0, lod_max_clamp |-> 1, compare_function |-> "Always" ]
SamplerDescriptor ==
    [ address_mode_u |-> "ClampToEdge", address_mode_v |-> "ClampToEdge",
      address_mode_w |-> "ClampToEdge", mag_filter |-> "Nearest",
      min_filter |-> "Nearest", mipmap_filter |-> "Nearest",
      lod_min_clamp |-> 0, lod_max_clamp |-> 1, compare_function |-> "Always" ]

\* wgpu::BindGroupLayoutDescriptor of lines 56-72.
BindGroupLayoutDescriptor ==
    [ bindings |->
        << [ binding |-> 0, visibility |-> { "FRAGMENT" },
             ty |-> [ type |-> "SampledTexture", multisampled |-> FALSE,
                      dimension |-> "D2" ] ],
           [ binding |-> 1, visibility |-> { "FRAGMENT" },
             ty |-> [ type |-> "Sampler" ] ] >> ]

\* wgpu::BindGroupDescriptor of lines 73-85.
BindGroupDescriptorSwapped(layout, texture_view, sampler) ==
    [ layout |-> layout,
      bindings |->
        << [ binding |-> 0, resource |-> [ type |-> "Sampler", sampler |-> sampler ] ],
           [ binding |-> 1,
             resource |-> [ type |-> "TextureView", view |-> texture_view ] ] >> ]
BindGroupDescriptor(layout, texture_view, sampler) ==
    [ layout |-> layout,
      bindings |->
        << [ binding |-> 0,
             resource |-> [ type |-> "TextureView", view |-> texture_view ] ],
           [ binding |-> 1, resource |-> [ type |-> "Sampler", sampler |-> sampler ] ] >> ]

\* wgpu::PipelineLayoutDescriptor of lines 88-90.
PipelineLayoutDescriptor(bind_group_layout) ==
    [ bind_group_layouts |-> << bind_group_layout >> ]

\* wgpu::BlendDescriptor::REPLACE, as used on lines 111-112.
REPLACE == [ src_factor |-> "One", dst_factor |-> "Zero", operation |-> "Add" ]

\* wgpu::ColorWrite::ALL, as used on line 113.
ALL == { "r", "g", "b", "a" }

\* wgpu::RenderPipelineDescriptor of lines 91-121.
RenderPipelineDescriptorMultisampled(layout, vs_module, fs_module) ==
    [ layout |-> layout,
      vertex_stage |-> [ module |-> vs_module, entry_point |-> "main" ],
      fragment_stage |-> << [ module |-> fs_module, entry_point |-> "main" ] >>,
      rasterization_state |->
        << [ front_face |-> "Ccw", cull_mode |-> "None", depth_bias |-> 0,
             depth_bias_slope_scale |-> 0, depth_bias_clamp |-> 0 ] >>,
      primitive_topology |-> "TriangleList",
      color_states |->
        << [ format |-> "Bgra8UnormSrgb", color_blend |-> REPLACE,
             alpha_blend |-> REPLACE, write_mask |-> ALL ] >>,
      depth_stencil_state |-> << >>,
      index_format |-> "Uint16",
      vertex_buffers |-> << >>,
      sample_count |-> 4,
      sample_mask |-> "!0",
      alpha_to_coverage_enabled |-> FALSE ]
RenderPipelineDescriptor(layout, vs_module, fs_module) ==
    [ layout |-> layout,
      vertex_stage |-> [ module |-> vs_module, entry_point |-> "main" ],
      fragment_stage |-> << [ module |-> fs_module, entry_point |-> "main" ] >>,
      rasterization_state |->
        << [ front_face |-> "Ccw", cull_mode |-> "None", depth_bias |-> 0,
             depth_bias_slope_scale |-> 0, depth_bias_clamp |-> 0 ] >>,
      primitive_topology |-> "TriangleList",
      color_states |->
        << [ format |-> "Bgra8UnormSrgb", color_blend |-> REPLACE,
             alpha_blend |-> REPLACE, write_mask |-> ALL ] >>,
      depth_stencil_state |-> << >>,
      index_format |-> "Uint16",
      vertex_buffers |-> << >>,
      sample_count |-> 1,
      sample_mask |-> "!0",
      alpha_to_coverage_enabled |-> FALSE ]

\* device.create_*(descriptor): the resource is added to the device's list.
Create(res, kind, desc) == Append(res, [ kind |-> kind, desc |-> desc ])

\* The seven device.create_* calls of factory, lines 39-121, in order.  The
\* handle of a resource is its place in the list.
FactoryResources(res, texture_view, vertWords, fragWords) ==
    LET vs_module == Len(res) + 1
        fs_module == Len(res) + 2
        sampler == Len(res) + 3
        bind_group_layout == Len(res) + 4
        bind_group == Len(res) + 5
        pipeline_layout == Len(res) + 6
        r1 == Create(res, "ShaderModule", vertWords)
        r2 == Create(r1, "ShaderModule", fragWords)
        r3 == Create(r2, "Sampler", SamplerDescriptor)
        r4 == Create(r3, "BindGroupLayout", BindGroupLayoutDescriptor)
        r5 == Create(r4, "BindGroup",
                     BindGroupDescriptor(bind_group_layout, texture_view, sampler))
        r6 == Create(r5, "PipelineLayout", PipelineLayoutDescriptor(bind_group_layout))
    IN  Create(r6, "RenderPipeline",
               RenderPipelineDescriptor(pipeline_layout, vs_module, fs_module))

\* Renderer::factory(device, _queue, texture_view), lines 18-128.  driver is
\* how the graphics API answers the create calls: "ok", or "error" when its
\* validation panics.
Factory(device, texture_view, driver) ==
    /\ phase = "init"
    /\ LET vert0 == ResizeWith(WordCount(vert_spv))
           frag0 == ResizeWith(WordCount(frag_spv))
           vertPanics == ReadPanics(vert_spv, vert0)
           fragPanics == ReadPanics(frag_spv, frag0)
           vert1 == ReadU32Into(vert_spv, vert0)
           frag1 == ReadU32Into(frag_spv, frag0)
           created == FactoryResources(resources, texture_view, vert1, frag1)
       IN  IF vertPanics THEN
                /\ vert' = vert0
                /\ phase' = "panicked"
                /\ panic' = "byteorder"
                /\ UNCHANGED << frag, resources, renderer >>
           ELSE IF fragPanics THEN
                /\ vert' = vert1
                /\ frag' = frag0
                /\ phase' = "panicked"
                /\ panic' = "byteorder"
                /\ UNCHANGED << resources, renderer >>
           ELSE IF driver = "error" THEN
                /\ vert' = vert1
                /\ frag' = frag1
                /\ phase' = "panicked"
                /\ panic' = "wgpu"
                /\ UNCHANGED << resources, renderer >>
           ELSE
                /\ vert' = vert1
                /\ frag' = frag1
                /\ phase' = "ready"
                /\ resources' = created
                /\ renderer' = [ device |-> device,
                                 bind_group |-> Len(created) - 2,
                                 render_pipeline |-> Len(created) ]
                /\ UNCHANGED panic
    /\ lastCall' = [ op |-> "factory", arg |-> texture_view,
                     ret |-> IF phase' = "ready" THEN "Box<Renderer>" ELSE "unwind" ]
    /\ given_view' = texture_view
    /\ UNCHANGED << vert_spv, frag_spv, encoder, texels, updated >>

(***************************************************************************)
(* impl RenderPass for Renderer, lines 131-154.                            *)
(***************************************************************************)

\* wgpu::Color::BLACK, the clear colour of line 142.
BLACK == [ r |-> 0, g |-> 0, b |-> 0, a |-> 1 ]
WHITE == [ r |-> 1, g |-> 1, b |-> 1, a |-> 1 ]
RED == [ r |-> 1, g |-> 0, b |-> 0, a |-> 1 ]
TRANSPARENT == [ r |-> 0, g |-> 0, b |-> 0, a |-> 0 ]

\* wgpu::RenderPassDescriptor of lines 136-145.  An Option is a sequence of
\* at most one element: << >> is None.
RenderPassDescriptorLoad(render_target) ==
    [ color_attachments |->
        << [ attachment |-> render_target, resolve_target |-> << >>,
             load_op |-> "Load", store_op |-> "Store", clear_color |-> BLACK ] >>,
      depth_stencil_attachment |-> << >> ]
RenderPassDescriptor(render_target) ==
    [ color_attachments |->
        << [ attachment |-> render_target, resolve_target |-> << >>,
             load_op |-> "Clear", store_op |-> "Store", clear_color |-> BLACK ] >>,
      depth_stencil_attachment |-> << >> ]

\* The commands of lines 146-148.  A Rust range a..b is [start, end): it
\* holds end - start values.
RenderPassCommandsOneTriangle(self) ==
    << [ cmd |-> "set_pipeline", pipeline |-> self.render_pipeline ],
       [ cmd |-> "set_bind_group", index |-> 0, bind_group |-> self.bind_group,
         offsets |-> << >> ],
       [ cmd |-> "draw", vertices |-> [ start |-> 0, end |-> 3 ],
         instances |-> [ start |-> 0, end |-> 1 ] ] >>
RenderPassCommands(self) ==
    << [ cmd |-> "set_pipeline", pipeline |-> self.render_pipeline ],
       [ cmd |-> "set_bind_group", index |-> 0, bind_group |-> self.bind_group,
         offsets |-> << >> ],
       [ cmd |-> "draw", vertices |-> [ start |-> 0, end |-> 6 ],
         instances |-> [ start |-> 0, end |-> 1 ] ] >>

\* What update_bindings makes of the Renderer and of the device: nothing
\* (line 132, an empty body).
UpdateBindingsRebinds(self, res, input_texture) ==
    [ self |-> [ self EXCEPT !.bind_group = Len(res) + 1 ],
      res |-> Create(res, "BindGroup",
                     BindGroupDescriptor(res[self.bind_group].desc.layout, input_texture,
                                         res[self.bind_group].desc.bindings[2].resource.sampler)) ]
UpdateBindingsResamples(self, res, input_texture) ==
    [ self |-> self, res |-> Create(res, "Sampler", SamplerDescriptor) ]
UpdateBindingsEffect(self, res, input_texture) ==
    [ self |-> self, res |-> res ]

\* Renderer::update_bindings(&mut self, _input_texture), line 132.
UpdateBindings(input_texture) ==
    /\ phase = "ready"
    /\ LET after == UpdateBindingsEffect(renderer, resources, input_texture)
       IN  /\ renderer' = after.self
           /\ resources' = after.res
    /\ updated' = updated \cup { input_texture }
    /\ lastCall' = [ op |-> "update_bindings", arg |-> input_texture, ret |-> "unit" ]
    /\ UNCHANGED << vert_spv, frag_spv, vert, frag, phase, panic, encoder, texels,
                    given_view >>

\* Renderer::render_pass(&self, encoder, render_target), lines 134-149.  The
\* pass ends where rpass is dropped, at the end of the function.  driver as
\* in Factory.
RenderPass(render_target, driver) ==
    /\ phase = "ready"
    /\ Len(encoder) < MaxPasses
    /\ IF driver = "error" THEN
            /\ phase' = "panicked"
            /\ panic' = "wgpu"
            /\ UNCHANGED encoder
       ELSE /\ encoder' = Append(encoder,
                                 [ descriptor |-> RenderPassDescriptor(render_target),
                                   commands |-> RenderPassCommands(renderer) ])
            /\ UNCHANGED << phase, panic >>
    /\ lastCall' = [ op |-> "render_pass", arg |-> render_target,
                     ret |-> IF driver = "error" THEN "unwind" ELSE "unit" ]
    /\ UNCHANGED << vert_spv, frag_spv, vert, frag, resources, renderer, texels,
                    given_view, updated >>

\* Renderer::debug(&self, f), lines 151-153: the Renderer is formatted; the
\* formatter decides the fmt::Result.
Debug(result) ==
    /\ phase = "ready"
    /\ lastCall' = [ op |-> "debug", arg |-> renderer, ret |-> result ]
    /\ UNCHANGED << vert_spv, frag_spv, vert, frag, phase, panic, resources, renderer,
                    encoder, texels, given_view, updated >>

(***************************************************************************)
(* What the recorded passes do to their targets once the caller submits    *)
(* the encoder.  The caller and the two shaders are not in renderers.rs;   *)
(* the shaders are taken to do what the specification says: the fragment   *)
(* stage samples the bound texture through the bound sampler.  Which       *)
(* pixels the six vertices cover is left open.                             *)
(***************************************************************************)

Min(a, b) == IF a < b THEN a ELSE b

\* A wgpu::BlendFactor applied to a channel value.
Factor(f, value) == IF f = "One" THEN value ELSE 0

\* A blend descriptor applied to one channel: source and destination are
\* weighted, added, and clamped to the channel's range.
Blend(desc, src, dst) == Min(1, Factor(desc.src_factor, src) + Factor(desc.dst_factor, dst))

\* One fragment written to one pixel under a colour state.
WritePixel(state, src, dst) ==
    [ ch \in Channels |->
        IF ch \in state.write_mask
        THEN Blend(IF ch = "a" THEN state.alpha_blend ELSE state.color_blend, src[ch], dst[ch])
        ELSE dst[ch] ]

\* The texel a sampler reads for a pixel: the pixel's own when it is
\* nearest-neighbour, else one mixed with the next pixel's.
Sample(sampler, tex, px) ==
    IF sampler.mag_filter = "Nearest" /\ sampler.min_filter = "Nearest"
    THEN tex[px]
    ELSE LET next == IF px + 1 \in DOMAIN tex THEN px + 1 ELSE px
         IN  [ ch \in Channels |-> (tex[px][ch] + tex[next][ch]) \div 2 ]

\* The fragment stage's output for a pixel: the texture of binding 0 read
\* through the sampler of binding 1.
FragmentOutput(res, tex, bind_group, px) ==
    LET bindings == res[bind_group].desc.bindings
    IN  Sample(res[bindings[2].resource.sampler].desc, tex[bindings[1].resource.view], px)

\* A draw: every covered pixel of the frame gets the fragment written under
\* the pipeline's colour state.  A draw of no vertices covers nothing.
Draw(res, tex, st, cmd, coverage) ==
    LET state == res[st.pipeline].desc.color_states[1]
        drawn == IF cmd.vertices.end - cmd.vertices.start >= 3
                    /\ cmd.instances.end - cmd.instances.start >= 1
                 THEN coverage ELSE { }
    IN  [ px \in Pixels |->
            IF px \in drawn
            THEN WritePixel(state, FragmentOutput(res, tex, st.bind_group, px), st.frame[px])
            ELSE st.frame[px] ]

\* The commands of one pass, in order, on the pass's state: the pipeline
\* and bind group that are set, and the frame being drawn.
RECURSIVE RunCommands(_, _, _, _, _)
RunCommands(res, tex, st, cmds, coverage) ==
    IF cmds = << >> THEN st
    ELSE LET cmd == Head(cmds)
             next == IF cmd.cmd = "set_pipeline" THEN [ st EXCEPT !.pipeline = cmd.pipeline ]
                     ELSE IF cmd.cmd = "set_bind_group"
                          THEN [ st EXCEPT !.bind_group = cmd.bind_group ]
                     ELSE [ st EXCEPT !.frame = Draw(res, tex, st, cmd, coverage) ]
         IN  RunCommands(res, tex, next, Tail(cmds), coverage)

\* One pass: the attachment is loaded (cleared, or kept), the commands run,
\* and the frame is stored to the attachment (or dropped).
ExecutePass(res, tex, pass, coverage) ==
    LET att == pass.descriptor.color_attachments[1]
        loaded == IF att.load_op = "Clear" THEN [ px \in Pixels |-> att.clear_color ]
                  ELSE tex[att.attachment]
        st == RunCommands(res, tex, [ pipeline |-> 0, bind_group |-> 0, frame |-> loaded ],
                          pass.commands, coverage)
    IN  IF att.store_op = "Store"
        THEN [ tex EXCEPT ![att.attachment] = st.frame ]
        ELSE tex

RECURSIVE ExecutePasses(_, _, _, _)
ExecutePasses(res, tex, passes, coverage) ==
    IF passes = << >> THEN tex
    ELSE ExecutePasses(res, ExecutePass(res, tex, Head(passes), coverage), Tail(passes),
                       coverage)

\* The caller finishes the encoder and submits it to the queue: the
\* recorded passes run, and the next frame starts on a fresh encoder.
Submit(coverage) ==
    /\ phase = "ready"
    /\ encoder # << >>
    /\ texels' = ExecutePasses(resources, texels, encoder, coverage)
    /\ encoder' = << >>
    /\ lastCall' = [ op |-> "submit", arg |-> coverage, ret |-> "unit" ]
    /\ UNCHANGED << vert_spv, frag_spv, vert, frag, phase, panic, resources, renderer,
                    given_view, updated >>

(***************************************************************************)
(* The specifications.                                                     *)
(***************************************************************************)

\* What the render targets may hold before the first frame.
Palette == { WHITE, TRANSPARENT }

\* The two input textures differ in every pixel.
InputTexels(view) ==
    [ px \in Pixels |-> IF view = "tex1" THEN (IF px % 2 = 1 THEN WHITE ELSE RED)
                        ELSE (IF px % 2 = 1 THEN RED ELSE TRANSPARENT) ]

InitRest ==
    /\ vert = << >>
    /\ frag = << >>
    /\ phase = "init"
    /\ panic = "none"
    /\ resources = << >>
    /\ renderer = NoRenderer
    /\ encoder = << >>
    /\ given_view = "none"
    /\ updated = { }
    /\ lastCall = [ op |-> "none", arg |-> "none", ret |-> "none" ]

\* The program before Renderer::factory is called.
Init ==
    /\ \E spv \in EmbeddedShaders :
         /\ vert_spv = spv[1]
         /\ frag_spv = spv[2]
    /\ \E held \in Palette :
         texels = [ view \in TextureViews \cup RenderTargets |->
                      IF view \in TextureViews THEN InputTexels(view)
                      ELSE [ px \in Pixels |-> held ] ]
    /\ InitRest

Next ==
    \/ \E device \in Devices, texture_view \in TextureViews, driver \in { "ok", "error" } :
         Factory(device, texture_view, driver)
    \/ \E input_texture \in TextureViews : UpdateBindings(input_texture)
    \/ \E render_target \in RenderTargets, driver \in { "ok", "error" } :
         RenderPass(render_target, driver)
    \/ \E result \in { "Ok", "Err" } : Debug(result)
    \/ \E coverage \in Coverages : Submit(coverage)

Spec == Init /\ [][Next]_vars

\* The conversion of lines 23-37 on byte arrays of every length up to
\* MaxBytes: factory is called once on each.
InitConv ==
    /\ vert_spv \in ByteArrays
    /\ frag_spv \in { << 3, 2, 35, 7 >>, << 3, 2, 35 >> }
    /\ texels = [ view \in TextureViews \cup RenderTargets |-> InputTexels(view) ]
    /\ InitRest

NextConv ==
    \E device \in Devices, texture_view \in TextureViews, driver \in { "ok", "error" } :
        Factory(device, texture_view, driver)

SpecConv == InitConv /\ [][NextConv]_vars

(***************************************************************************)
(* The properties.                                                         *)
(***************************************************************************)

\* The handles of the resources of one kind.
OfKind(kind) == { i \in DOMAIN resources : resources[i].kind = kind }

\* The descriptors behind the Renderer's two resource fields.
BoundGroup == resources[renderer.bind_group].desc
BoundPipeline == resources[renderer.render_pipeline].desc

\* C1: every render_pass call that returns adds exactly one pass to the
\* encoder and leaves the earlier ones as they were; the pass is begun on
\* the render_target of the call and holds exactly three commands, in this
\* order: set_pipeline(render_pipeline), set_bind_group(0, bind_group, no
\* dynamic offsets), draw(0..6, 0..1), which is six vertices, one instance.
C1_RenderPassSequence ==
    [][ (lastCall'.op = "render_pass" /\ lastCall'.ret = "unit") =>
          /\ Len(encoder') = Len(encoder) + 1
          /\ SubSeq(encoder', 1, Len(encoder)) = encoder
          /\ LET pass == encoder'[Len(encoder')]
                 draw == pass.commands[3]
             IN  /\ Len(pass.descriptor.color_attachments) = 1
                 /\ pass.descriptor.color_attachments[1].attachment = lastCall'.arg
                 /\ Len(pass.commands) = 3
                 /\ pass.commands[1] =
                        [ cmd |-> "set_pipeline", pipeline |-> renderer.render_pipeline ]
                 /\ pass.commands[2] =
                        [ cmd |-> "set_bind_group", index |-> 0,
                          bind_group |-> renderer.bind_group, offsets |-> << >> ]
                 /\ draw.cmd = "draw"
                 /\ draw.vertices.start = 0
                 /\ draw.vertices.end - draw.vertices.start = 6
                 /\ draw.instances.start = 0
                 /\ draw.instances.end - draw.instances.start = 1
      ]_vars

\* Two passes recorded on one encoder, on two different targets.
C1_Witness ==
    /\ lastCall.op = "render_pass"
    /\ lastCall.ret = "unit"
    /\ Len(encoder) = 2
    /\ encoder[1].descriptor.color_attachments[1].attachment
         # encoder[2].descriptor.color_attachments[1].attachment

\* C2: the pipeline state is constructed once, inside factory: before
\* factory nothing is created and the Renderer has no fields; once factory
\* has returned there is exactly one sampler, bind group layout, bind
\* group, pipeline layout and render pipeline, and no later step
\* (update_bindings, render_pass, debug, a submit) creates a resource or
\* changes the Renderer's device, bind_group or render_pipeline.
C2_ConstructedOnce ==
    /\ [](phase = "init" => resources = << >> /\ renderer = NoRenderer)
    /\ [](phase = "ready" =>
            \A kind \in { "Sampler", "BindGroupLayout", "BindGroup", "PipelineLayout",
                          "RenderPipeline" } : Cardinality(OfKind(kind)) = 1)
    /\ [][ phase = "ready" => resources' = resources /\ renderer' = renderer ]_vars

\* update_bindings, render_pass and debug have all been called.
C2_Witness ==
    /\ phase = "ready"
    /\ updated = TextureViews
    /\ encoder # << >>
    /\ lastCall.op = "debug"

\* C3: every sampler on the device is nearest-neighbour (mag, min and
\* mipmap filter are Nearest) and clamps to the edge on the axes u, v and w;
\* once factory has returned there is such a sampler.
C3_NearestSampler ==
    /\ \A i \in OfKind("Sampler") :
         /\ resources[i].desc.mag_filter = "Nearest"
         /\ resources[i].desc.min_filter = "Nearest"
         /\ resources[i].desc.mipmap_filter = "Nearest"
         /\ resources[i].desc.address_mode_u = "ClampToEdge"
         /\ resources[i].desc.address_mode_v = "ClampToEdge"
         /\ resources[i].desc.address_mode_w = "ClampToEdge"
    /\ phase = "ready" => OfKind("Sampler") # { }

\* factory has returned and its sampler is the one the bind group holds.
C3_Witness ==
    /\ phase = "ready"
    /\ BoundGroup.bindings[2].resource.sampler \in OfKind("Sampler")

\* The render targets the passes of an encoder are begun on.
Attached(passes) ==
    { passes[i].descriptor.color_attachments[1].attachment : i \in DOMAIN passes }

\* C4: every recorded pass clears its one colour attachment to black and
\* stores it, and the pipeline replaces colour and alpha and writes all
\* channels; so when the encoder is submitted, each pixel of a target that
\* a pass was begun on is the fragment output where the draw covered it and
\* black elsewhere, whatever the target held before, and the other targets
\* are left alone.
C4_TargetIndependentOfBefore ==
    /\ [](\A i \in DOMAIN encoder :
            LET att == encoder[i].descriptor.color_attachments[1]
            IN  /\ att.load_op = "Clear"
                /\ att.clear_color = BLACK
                /\ att.store_op = "Store")
    /\ [](phase = "ready" =>
            /\ BoundPipeline.color_states[1].color_blend = REPLACE
            /\ BoundPipeline.color_states[1].alpha_blend = REPLACE
            /\ BoundPipeline.color_states[1].write_mask = ALL)
    /\ [][ lastCall'.op = "submit" =>
             \A target \in RenderTargets :
                IF target \in Attached(encoder)
                THEN \A px \in Pixels :
                        texels'[target][px] =
                            IF px \in lastCall'.arg
                            THEN FragmentOutput(resources, texels, renderer.bind_group, px)
                            ELSE BLACK
                ELSE texels'[target] = texels[target]
       ]_vars

\* A submit whose draw covered some pixels of a target and not others: the
\* covered ones show the texture, the others are black although no target
\* was black before the first frame.
C4_Witness ==
    /\ lastCall.op = "submit"
    /\ \E target \in RenderTargets, px, qx \in Pixels :
         /\ px \in lastCall.arg
         /\ qx \notin lastCall.arg
         /\ texels[target][px] = texels[given_view][px]
         /\ texels[target][px] # BLACK
         /\ texels[target][qx] = BLACK

\* C5: the Renderer raises no failure of its own.  The only panic is one
\* the graphics API raised; a factory call that returns gives a boxed
\* Renderer with its fields set; update_bindings always returns unit;
\* render_pass returns unit unless the graphics API panicked in it.
C5_NoOwnFailure ==
    /\ panic \in { "none", "wgpu" }
    /\ phase = "panicked" <=> panic # "none"
    /\ lastCall.ret = "unwind" => panic = "wgpu"
    /\ lastCall.op = "factory" /\ lastCall.ret # "unwind" =>
         /\ lastCall.ret = "Box<Renderer>"
         /\ renderer # NoRenderer
         /\ renderer.device \in Devices
    /\ lastCall.op = "update_bindings" => lastCall.ret = "unit"
    /\ lastCall.op = "render_pass" /\ lastCall.ret # "unwind" => lastCall.ret = "unit"

\* factory, update_bindings and render_pass have all returned.
C5_Witness ==
    /\ phase = "ready"
    /\ updated # { }
    /\ lastCall.op = "render_pass"
    /\ lastCall.ret = "unit"

\* C6: once factory has returned, the bind group matches its layout entry
\* for entry.  The layout has exactly two bindings: 0, a non-multisampled
\* 2D sampled texture, and 1, a sampler, both visible to the fragment stage
\* only.  The bind group has exactly two: 0, the texture view factory was
\* given, and 1, the nearest-neighbour sampler.  The pipeline's layout holds
\* exactly that one bind group layout, at the index (0) at which every
\* recorded pass sets the bind group.
C6_BindGroupMatchesLayout ==
    phase = "ready" =>
        LET layout == resources[BoundGroup.layout]
            entries == layout.desc.bindings
            bound == BoundGroup.bindings
            pipeline_layout == resources[BoundPipeline.layout]
        IN  /\ layout.kind = "BindGroupLayout"
            /\ Len(entries) = 2
            /\ entries[1].binding = 0
            /\ entries[1].ty = [ type |-> "SampledTexture", multisampled |-> FALSE,
                                 dimension |-> "D2" ]
            /\ entries[2].binding = 1
            /\ entries[2].ty = [ type |-> "Sampler" ]
            /\ \A i \in 1 .. 2 : entries[i].visibility = { "FRAGMENT" }
            /\ Len(bound) = 2
            /\ \A i \in 1 .. 2 :
                 /\ bound[i].binding = entries[i].binding
                 /\ bound[i].resource.type =
                        (IF entries[i].ty.type = "SampledTexture" THEN "TextureView"
                         ELSE "Sampler")
            /\ bound[1].resource = [ type |-> "TextureView", view |-> given_view ]
            /\ bound[2].resource.sampler \in OfKind("Sampler")
            /\ resources[bound[2].resource.sampler].desc.mag_filter = "Nearest"
            /\ pipeline_layout.kind = "PipelineLayout"
            /\ pipeline_layout.desc.bind_group_layouts = << BoundGroup.layout >>
            /\ \A p \in DOMAIN encoder :
                 /\ encoder[p].commands[2].bind_group = renderer.bind_group
                 /\ pipeline_layout.desc.bind_group_layouts[encoder[p].commands[2].index + 1]
                      = BoundGroup.layout

\* A pass that sets the bind group has been recorded.
C6_Witness ==
    /\ phase = "ready"
    /\ encoder # << >>
    /\ encoder[1].commands[2].cmd = "set_bind_group"

\* C7: update_bindings leaves every field of the Renderer as it was, and
\* every recorded pass sets the bind group whose binding 0 is the texture
\* view factory was given, whatever views update_bindings was called with.
C7_UpdateBindingsNoOp ==
    /\ [][ lastCall'.op = "update_bindings" => renderer' = renderer ]_vars
    /\ [](\A p \in DOMAIN encoder :
            resources[encoder[p].commands[2].bind_group].desc.bindings[1].resource
                = [ type |-> "TextureView", view |-> given_view ])

\* update_bindings was called with another view than factory, and then a
\* pass was recorded.
C7_Witness ==
    /\ \E view \in updated : view # given_view
    /\ lastCall.op = "render_pass"
    /\ lastCall.ret = "unit"
    /\ encoder # << >>

\* C8: every recorded pass is compatible with the pipeline.  The pass has
\* one colour attachment and the pipeline one colour state; neither has a
\* depth-stencil attachment or state; the pipeline's sample count is 1 and
\* the attachment has no resolve target; the pipeline declares no vertex
\* buffers and the pass holds no command but set_pipeline, set_bind_group
\* and draw, so no vertex or index buffer is set.
C8_PassCompatibleWithPipeline ==
    phase = "ready" =>
        /\ Len(BoundPipeline.color_states) = 1
        /\ BoundPipeline.depth_stencil_state = << >>
        /\ BoundPipeline.sample_count = 1
        /\ BoundPipeline.vertex_buffers = << >>
        /\ \A p \in DOMAIN encoder :
             LET pass == encoder[p]
             IN  /\ Len(pass.descriptor.color_attachments) = Len(BoundPipeline.color_states)
                 /\ pass.descriptor.depth_stencil_attachment = BoundPipeline.depth_stencil_state
                 /\ pass.descriptor.color_attachments[1].resolve_target = << >>
                 /\ resources[pass.commands[1].pipeline].desc = BoundPipeline
                 /\ \A c \in DOMAIN pass.commands :
                      pass.commands[c].cmd \in { "set_pipeline", "set_bind_group", "draw" }

\* Two passes have been recorded for the pipeline.
C8_Witness ==
    /\ phase = "ready"
    /\ Len(encoder) >= 2
    /\ encoder[2].commands[1].pipeline = renderer.render_pipeline

\* Word i (from 0) of a byte array, as the little-endian sum.
LittleEndianWord(b, i) ==
    b[4 * i + 1] + 256 * b[4 * i + 2] + 65536 * b[4 * i + 3] + 16777216 * b[4 * i + 4]

\* A byte array of n bytes was converted: the vector holds floor(n / 4)
\* words and word i is the little-endian sum of bytes 4i .. 4i+3.
Converted(spv, words) ==
    /\ Len(spv) % 4 = 0
    /\ Len(words) = Len(spv) \div 4
    /\ \A i \in 0 .. Len(words) - 1 : words[i + 1] = LittleEndianWord(spv, i)

\* The conversion of a byte array panicked: its length is no multiple of 4
\* and the vector is left with its floor(n / 4) zero words.
Unconverted(spv, words) ==
    /\ Len(spv) % 4 # 0
    /\ Len(words) = Len(spv) \div 4
    /\ \A i \in DOMAIN words : words[i] = 0

\* C9: once factory has been called, each embedded byte array of length n
\* it got to was resized to floor(n / 4) words; it was converted, each word
\* the little-endian sum of its four bytes, exactly when n is a multiple of
\* 4, and otherwise factory panicked in byteorder before reaching the
\* device.  factory returns only with both arrays converted, and the two
\* shader modules are made of the converted words.
C9_LittleEndianWords ==
    lastCall.op = "factory" =>
        /\ Converted(vert_spv, vert) \/ Unconverted(vert_spv, vert)
        /\ Unconverted(vert_spv, vert) =>
             phase = "panicked" /\ panic = "byteorder" /\ frag = << >> /\ resources = << >>
        /\ Converted(vert_spv, vert) =>
             /\ Converted(frag_spv, frag) \/ Unconverted(frag_spv, frag)
             /\ Unconverted(frag_spv, frag) =>
                  phase = "panicked" /\ panic = "byteorder" /\ resources = << >>
             /\ Converted(frag_spv, frag) => panic # "byteorder"
        /\ phase = "ready" =>
             /\ Converted(vert_spv, vert)
             /\ Converted(frag_spv, frag)
             /\ resources[1] = [ kind |-> "ShaderModule", desc |-> vert ]
             /\ resources[2] = [ kind |-> "ShaderModule", desc |-> frag ]

\* factory returned after converting eight bytes to two different words whose
\* bytes differ from one place to the next.
C9_Witness ==
    /\ lastCall.op = "factory"
    /\ phase = "ready"
    /\ Len(vert_spv) = 8
    /\ Len(vert) = 2
    /\ vert[1] # vert[2]
    /\ vert_spv[1] # vert_spv[4]

====
